---- MODULE Spec2Model ----
(***************************************************************************)
(* Model of termux_scripts/bdi_master.py: the belief / desire / intention  *)
(* control loop of FMAABDIMaster (run_agent, bdi_cycle) and the three      *)
(* subsystems it drives (BeliefSystem, DesireEngine, IntentionSystem).     *)
(*                                                                         *)
(* Four specifications share the variables:                                *)
(*   Spec      the agent as constructed by FMAABDIMaster() and started by  *)
(*             run_agent();                                                *)
(*   SpecCycle the same loop on an agent whose two beliefs that no stage   *)
(*             writes (system_health, active_agents) are drawn from        *)
(*             bounded sets;                                               *)
(*   SpecFn    the stages called directly on inputs drawn from bounded     *)
(*             sets (a belief snapshot for generate_desires, a desire list *)
(*             for form_intentions, an intention list for                  *)
(*             execute_intentions);                                        *)
(*   SpecMain  the script run as __main__: the construction of the agent   *)
(*             from config.yaml and the start of the loop and dashboard.   *)
(***************************************************************************)
EXTENDS Integers, Sequences, FiniteSets, TLC

VARIABLES
    running,            \* FMAABDIMaster.running
    pc,                 \* position of run_agent / bdi_cycle
    cycle_count,        \* local cycle_count of run_agent
    now,                \* wall clock, in seconds
    beliefs,            \* BeliefSystem.beliefs
    current_desires,    \* DesireEngine.current_desires
    active_intentions,  \* IntentionSystem.active_intentions
    ix,                 \* position of the for loop of execute_intentions
    attempts,           \* calls of _execute_single_intention made by the
                        \* current execute_intentions, with their outcome
    stages,             \* stages of the current cycle that have returned
    interrupts,         \* KeyboardInterrupts raised so far in the process
    wrote,              \* for each belief update_beliefs writes, the cycle
                        \* whose refresh wrote it last (0: the constructor)
    probed,             \* the responses the probes of the refresh in
                        \* progress received
    view,               \* what the dashboard request served by the last
                        \* step read (NoView: a step of the loop)
    config_file,        \* the configuration file on disk
    config              \* FMAABDIMaster.config

vars == <<running, pc, cycle_count, now, beliefs, current_desires,
          active_intentions, ix, attempts, stages, interrupts, wrote, probed,
          view, config_file, config>>

(***************************************************************************)
(* Bounds of the model.                                                    *)
(***************************************************************************)
MaxCycles == 2
MaxAgents == 5
MaxDesires == 4
MaxIntentions == 4
MaxInterrupts == 1

(***************************************************************************)
(* Program constants.                                                      *)
(***************************************************************************)
CycleInterval == 30
RetryBackoff_long == CycleInterval
RetryBackoff == 10
ExecuteTop == 3
FallbackUsage == 5
InitialHealth == 100
HealthThreshold == 90
AgentThreshold == 5
RevenuePriority == 10
SystemPriority == 8
ScalingPriority == 6
TargetAgents == 10
TargetHealth == 95
DefaultTarget == 50000
PlaceholderRevenue == 12500
None == -1

Min(a, b) == IF a < b THEN a ELSE b

EmptyDict == [k \in {} |-> 0]

\* dict.get(key, default)
Get(d, key, default) == IF key \in DOMAIN d THEN d[key] ELSE default

PlaceholderMetrics ==
    [current_month |-> PlaceholderRevenue, target |-> DefaultTarget,
     growth_rate |-> 153, active_streams |-> 7]   \* growth_rate in tenths

Services == {"github_actions", "vercel_api", "supabase_db", "huggingface"}

InitialBeliefs ==
    [system_health |-> InitialHealth, resource_usage |-> 0,
     active_agents |-> <<>>, revenue_metrics |-> EmptyDict,
     cloud_status |-> EmptyDict, last_updated |-> None]

\* no refresh has written any belief yet
InitialWrote ==
    [resource_usage |-> 0, cloud_status |-> 0, revenue_metrics |-> 0,
     last_updated |-> 0]

\* the last step served no dashboard request
NoView == [route |-> "none"]

\* self.config is not assigned yet
NoConfig == [unset |-> TRUE]

\* a configuration, as the set of the entries it has
Loaded(keys) == [keys |-> keys]

\* the entries of _default_config: it has no secrets
DefaultConfig == Loaded({"bdi_agent", "revenue_targets", "cloud_services"})

\* config.yaml does not exist
MissingFile == [state |-> "missing"]

\* the state FMAABDIMaster() leaves outside the three subsystems, when
\* config.yaml does not exist
Constructed ==
    /\ wrote = InitialWrote
    /\ probed = EmptyDict
    /\ view = NoView
    /\ config_file = MissingFile
    /\ config = DefaultConfig

(***************************************************************************)
(* DesireEngine.generate_desires, as a function of the beliefs.            *)
(* revenue < target * 0.8 on integers is 10 * revenue < 8 * target: the    *)
(* float product is exact whenever 0.8 * target is an integer and never    *)
(* crosses an integer otherwise.                                           *)
(***************************************************************************)
BelowTarget_inclusive(revenue, target) == 10 * revenue <= 8 * target

BelowTarget(revenue, target) == 10 * revenue < 8 * target

RevenueRule(b) ==
    LET revenue == Get(b.revenue_metrics, "current_month", 0)
        target == Get(b.revenue_metrics, "target", DefaultTarget)
    IN  IF BelowTarget(revenue, target)
        THEN << [type |-> "revenue_optimization", priority |-> RevenuePriority,
                 target_increase |-> target - revenue,
                 strategy |-> "aggressive_scaling"] >>
        ELSE <<>>

SystemRule(b) ==
    IF b.system_health < HealthThreshold
    THEN << [type |-> "system_optimization", priority |-> SystemPriority,
             target_health |-> TargetHealth,
             actions |-> <<"cleanup", "resource_optimization">>] >>
    ELSE <<>>

NeedsScaling_inclusive(agents) == Len(agents) <= AgentThreshold

NeedsScaling(agents) == Len(agents) < AgentThreshold

ScalingRule(b) ==
    IF NeedsScaling(b.active_agents)
    THEN << [type |-> "agent_scaling", priority |-> ScalingPriority,
             target_agents |-> TargetAgents,
             deployment_strategy |-> "gradual"] >>
    ELSE <<>>

generate_desires_exclusive(b) ==
    IF RevenueRule(b) # <<>> THEN RevenueRule(b)
    ELSE IF SystemRule(b) # <<>> THEN SystemRule(b)
    ELSE ScalingRule(b)

generate_desires(b) == RevenueRule(b) \o SystemRule(b) \o ScalingRule(b)

(***************************************************************************)
(* IntentionSystem.form_intentions.                                        *)
(***************************************************************************)
\* the key the agent_scaling branch reads from the desire (line 218)
ScalingCountKey == "count"

\* a desire whose branch subscripts a key the desire does not have
RaisesKeyError(desire) ==
    /\ desire.type = "agent_scaling"
    /\ ScalingCountKey \notin DOMAIN desire

\* the intentions one desire appends: one, or none for an unknown type
Compile(desire) ==
    IF desire.type = "revenue_optimization"
    THEN << [action |-> "trigger_github_workflow",
             workflow |-> "revenue-optimization.yml",
             parameters |-> [target_increase |-> desire.target_increase,
                             strategy |-> desire.strategy],
             priority |-> desire.priority] >>
    ELSE IF desire.type = "system_optimization"
    THEN << [action |-> "local_optimization",
             tasks |-> <<"cleanup_logs", "optimize_processes">>,
             priority |-> desire.priority] >>
    ELSE IF desire.type = "agent_scaling"
    THEN << [action |-> "deploy_agents", platform |-> "vercel",
             count |-> desire[ScalingCountKey],
             priority |-> desire.priority] >>
    ELSE <<>>

RECURSIVE CompileAll(_)
CompileAll(desires) ==
    IF desires = <<>> THEN <<>>
    ELSE Compile(Head(desires)) \o CompileAll(Tail(desires))

\* list.sort(key=priority, reverse=True) is stable: an element goes after
\* every element whose priority is at least its own
GoesBefore_strict(x, y) == x.priority > y.priority

GoesBefore(x, y) == x.priority >= y.priority

RECURSIVE InsertSorted(_, _)
InsertSorted(x, sorted) ==
    IF sorted = <<>> THEN <<x>>
    ELSE IF GoesBefore(Head(sorted), x)
         THEN <<Head(sorted)>> \o InsertSorted(x, Tail(sorted))
         ELSE <<x>> \o sorted

RECURSIVE SortByPriority(_)
SortByPriority(list) ==
    IF list = <<>> THEN <<>>
    ELSE InsertSorted(list[Len(list)],
                      SortByPriority(SubSeq(list, 1, Len(list) - 1)))

FormRaises(desires) == \E i \in 1..Len(desires) : RaisesKeyError(desires[i])

form_intentions(desires) == SortByPriority(CompileAll(desires))

(***************************************************************************)
(* IntentionSystem.execute_intentions and _execute_single_intention.       *)
(***************************************************************************)
Admitted_all(intentions) == intentions

\* self.active_intentions[:3]
Admitted(intentions) == SubSeq(intentions, 1, Min(ExecuteTop, Len(intentions)))

SinkOf_crossed(action) ==
    IF action = "trigger_github_workflow" THEN "_trigger_github_workflow"
    ELSE IF action = "local_optimization" THEN "_deploy_agents"
    ELSE IF action = "deploy_agents" THEN "_perform_local_optimization"
    ELSE "none"

\* the sink _execute_single_intention calls for an action
SinkOf(action) ==
    IF action = "trigger_github_workflow" THEN "_trigger_github_workflow"
    ELSE IF action = "local_optimization" THEN "_perform_local_optimization"
    ELSE IF action = "deploy_agents" THEN "_deploy_agents"
    ELSE "none"

\* what the sink does: _deploy_agents reads self.config, which an
\* IntentionSystem does not have; the other two print and return
SinkOutcome(sink) ==
    IF sink = "_deploy_agents" THEN "AttributeError" ELSE "returned"

(***************************************************************************)
(* BeliefSystem: the probes and the resource sample.  A response is the    *)
(* HTTP status of requests.get, or NoResponse when requests.get raises     *)
(* (connection error, timeout).                                            *)
(***************************************************************************)
NoResponse == 0
Responses == {NoResponse, 200, 401, 500}

_ping_github(r) == r # NoResponse /\ r = 200
_ping_vercel_unguarded(r) == r \in {NoResponse, 200, 401}

_ping_vercel(r) == r # NoResponse /\ r \in {200, 401}
_ping_supabase(r) == r # NoResponse
_ping_huggingface(r) == r # NoResponse /\ r \in {200, 401}

\* the dict _check_cloud_services builds from the four responses
_check_cloud_services(resp) ==
    [github_actions |-> _ping_github(resp["github_actions"]),
     vercel_api |-> _ping_vercel(resp["vercel_api"]),
     supabase_db |-> _ping_supabase(resp["supabase_db"]),
     huggingface |-> _ping_huggingface(resp["huggingface"])]

\* psutil.cpu_percent(interval=1), in percent
CpuSamples == {0, 100}

(***************************************************************************)
(* The state after FMAABDIMaster() has been constructed.                   *)
(***************************************************************************)
Init ==
    /\ running = FALSE
    /\ pc = "init"
    /\ cycle_count = 0
    /\ now = 0
    /\ beliefs = InitialBeliefs
    /\ current_desires = <<>>
    /\ active_intentions = <<>>
    /\ ix = 1
    /\ attempts = <<>>
    /\ stages = <<>>
    /\ interrupts = 0
    /\ Constructed

(***************************************************************************)
(* run_agent.                                                              *)
(***************************************************************************)
\* run_agent is entered: self.running = True, cycle_count = 0
RunAgent ==
    /\ pc = "init"
    /\ running' = TRUE
    /\ cycle_count' = 0
    /\ pc' = "loop"
    /\ UNCHANGED <<now, beliefs, current_desires, active_intentions, ix,
                   attempts, stages, interrupts>>
    /\ view' = NoView
    /\ UNCHANGED <<wrote, probed, config_file, config>>

\* the stage bdi_cycle awaits first
FirstStage == "resource"

StageAfter_swapped(stage) ==
    IF stage = "beliefs" THEN "plan"
    ELSE IF stage = "intentions" THEN "desires"
    ELSE IF stage = "desires" THEN "execute"
    ELSE "sleep"

\* the order in which bdi_cycle awaits the stages: where control goes when
\* a stage returns (after execution, run_agent sleeps)
StageAfter(stage) ==
    IF stage = "beliefs" THEN "desires"
    ELSE IF stage = "desires" THEN "plan"
    ELSE IF stage = "intentions" THEN "execute"
    ELSE "sleep"

LoopContinues_forever == TRUE

\* while self.running
LoopContinues == running

\* while self.running holds: cycle_count += 1 and bdi_cycle is entered
StartCycle ==
    /\ pc = "loop"
    /\ LoopContinues
    /\ cycle_count < MaxCycles
    /\ cycle_count' = cycle_count + 1
    /\ pc' = FirstStage
    /\ stages' = <<>>
    /\ UNCHANGED <<running, now, beliefs, current_desires, active_intentions,
                   ix, attempts, interrupts>>
    /\ view' = NoView
    /\ UNCHANGED <<wrote, probed, config_file, config>>

\* while self.running fails: run_agent returns
LoopExit ==
    /\ pc = "loop"
    /\ ~LoopContinues
    /\ pc' = "stopped"
    /\ UNCHANGED <<running, cycle_count, now, beliefs, current_desires,
                   active_intentions, ix, attempts, stages, interrupts>>
    /\ view' = NoView
    /\ UNCHANGED <<wrote, probed, config_file, config>>

(***************************************************************************)
(* update_beliefs, one action per write to self.beliefs.                   *)
(***************************************************************************)
SampleResource_health ==
    /\ pc = "resource"
    /\ \E usage \in CpuSamples \cup {FallbackUsage} :
          beliefs' = [beliefs EXCEPT !.resource_usage = usage,
                                     !.system_health = InitialHealth - usage]
    /\ pc' = "cloud"
    /\ UNCHANGED <<running, cycle_count, now, current_desires,
                   active_intentions, ix, attempts, stages, interrupts>>
    /\ wrote' = [wrote EXCEPT !.resource_usage = cycle_count]
    /\ view' = NoView
    /\ UNCHANGED <<probed, config_file, config>>

\* _get_resource_usage returns a psutil sample, or the fallback when psutil
\* cannot be imported
SampleResource ==
    /\ pc = "resource"
    /\ \E usage \in CpuSamples \cup {FallbackUsage} :
          beliefs' = [beliefs EXCEPT !.resource_usage = usage]
    /\ pc' = "cloud"
    /\ UNCHANGED <<running, cycle_count, now, current_desires,
                   active_intentions, ix, attempts, stages, interrupts>>
    /\ wrote' = [wrote EXCEPT !.resource_usage = cycle_count]
    /\ view' = NoView
    /\ UNCHANGED <<probed, config_file, config>>

SampleResourceFails_late ==
    /\ pc = "resource"
    /\ beliefs' = [beliefs EXCEPT !.resource_usage = FallbackUsage]
    /\ wrote' = [wrote EXCEPT !.resource_usage = cycle_count]
    /\ pc' = StageAfter("beliefs")
    /\ stages' = Append(stages, "beliefs")
    /\ view' = NoView
    /\ UNCHANGED <<running, cycle_count, now, current_desires,
                   active_intentions, ix, attempts, interrupts, probed,
                   config_file, config>>

\* psutil raises something other than ImportError: update_beliefs catches
\* it, has written nothing, and returns False
SampleResourceFails ==
    /\ pc = "resource"
    /\ pc' = StageAfter("beliefs")
    /\ stages' = Append(stages, "beliefs")
    /\ UNCHANGED <<running, cycle_count, now, beliefs, current_desires,
                   active_intentions, ix, attempts, interrupts>>
    /\ view' = NoView
    /\ UNCHANGED <<wrote, probed, config_file, config>>

CheckCloud ==
    /\ pc = "cloud"
    /\ \E resp \in [Services -> Responses] :
          /\ beliefs' = [beliefs EXCEPT !.cloud_status = _check_cloud_services(resp)]
          /\ probed' = resp
    /\ pc' = "revenue"
    /\ UNCHANGED <<running, cycle_count, now, current_desires,
                   active_intentions, ix, attempts, stages, interrupts>>
    /\ wrote' = [wrote EXCEPT !.cloud_status = cycle_count]
    /\ view' = NoView
    /\ UNCHANGED <<config_file, config>>

\* a KeyboardInterrupt raised inside a probe's requests.get is caught by the
\* probe's bare except: the probe returns False and the signal is lost
CheckCloudInterrupted ==
    /\ pc = "cloud"
    /\ interrupts < MaxInterrupts
    /\ \E resp \in [Services -> Responses] :
          /\ \E s \in Services : resp[s] = NoResponse
          /\ beliefs' = [beliefs EXCEPT !.cloud_status = _check_cloud_services(resp)]
          /\ probed' = resp
    /\ interrupts' = interrupts + 1
    /\ pc' = "revenue"
    /\ UNCHANGED <<running, cycle_count, now, current_desires,
                   active_intentions, ix, attempts, stages>>
    /\ wrote' = [wrote EXCEPT !.cloud_status = cycle_count]
    /\ view' = NoView
    /\ UNCHANGED <<config_file, config>>

_fetch_revenue_metrics == PlaceholderMetrics

FetchRevenue ==
    /\ pc = "revenue"
    /\ beliefs' = [beliefs EXCEPT !.revenue_metrics = _fetch_revenue_metrics]
    /\ pc' = "stamp"
    /\ UNCHANGED <<running, cycle_count, now, current_desires,
                   active_intentions, ix, attempts, stages, interrupts>>
    /\ wrote' = [wrote EXCEPT !.revenue_metrics = cycle_count]
    /\ probed' = EmptyDict
    /\ view' = NoView
    /\ UNCHANGED <<config_file, config>>

\* last_updated = datetime.now(); update_beliefs returns True
StampBeliefs ==
    /\ pc = "stamp"
    /\ beliefs' = [beliefs EXCEPT !.last_updated = now]
    /\ pc' = StageAfter("beliefs")
    /\ stages' = Append(stages, "beliefs")
    /\ UNCHANGED <<running, cycle_count, now, current_desires,
                   active_intentions, ix, attempts, interrupts>>
    /\ wrote' = [wrote EXCEPT !.last_updated = cycle_count]
    /\ view' = NoView
    /\ UNCHANGED <<probed, config_file, config>>

(***************************************************************************)
(* The other three stages of bdi_cycle.                                    *)
(***************************************************************************)
GenerateDesires ==
    /\ pc = "desires"
    /\ current_desires' = generate_desires(beliefs)
    /\ pc' = StageAfter("desires")
    /\ stages' = Append(stages, "desires")
    /\ UNCHANGED <<running, cycle_count, now, beliefs, active_intentions, ix,
                   attempts, interrupts>>
    /\ view' = NoView
    /\ UNCHANGED <<wrote, probed, config_file, config>>

\* form_intentions raises KeyError before it sorts or assigns; the exception
\* leaves bdi_cycle and reaches the except Exception clause of run_agent
FormIntentionsRaises ==
    /\ pc = "plan"
    /\ FormRaises(current_desires)
    /\ pc' = "backoff"
    /\ UNCHANGED <<running, cycle_count, now, beliefs, current_desires,
                   active_intentions, ix, attempts, stages, interrupts>>
    /\ view' = NoView
    /\ UNCHANGED <<wrote, probed, config_file, config>>

FormIntentionsReturns ==
    /\ pc = "plan"
    /\ ~FormRaises(current_desires)
    /\ active_intentions' = form_intentions(current_desires)
    /\ pc' = StageAfter("intentions")
    /\ ix' = 1
    /\ attempts' = <<>>
    /\ stages' = Append(stages, "intentions")
    /\ UNCHANGED <<running, cycle_count, now, beliefs, current_desires,
                   interrupts>>
    /\ view' = NoView
    /\ UNCHANGED <<wrote, probed, config_file, config>>

AfterFailedAttempt_aborts == "backoff"

\* where execute_intentions goes after an attempt that raised: the except
\* clause inside the for loop continues with the next intention
AfterFailedAttempt == "execute"

\* one iteration of the for loop of execute_intentions
ExecuteOne ==
    /\ pc = "execute"
    /\ ix <= Len(Admitted(active_intentions))
    /\ LET intention == Admitted(active_intentions)[ix]
           sink == SinkOf(intention.action)
           outcome == SinkOutcome(sink)
       IN  /\ attempts' = Append(attempts,
                  [index |-> ix, intention |-> intention, sink |-> sink,
                   outcome |-> outcome])
           /\ pc' = IF outcome = "returned" THEN "execute"
                    ELSE AfterFailedAttempt
    /\ ix' = ix + 1
    /\ UNCHANGED <<running, cycle_count, now, beliefs, current_desires,
                   active_intentions, stages, interrupts>>
    /\ view' = NoView
    /\ UNCHANGED <<wrote, probed, config_file, config>>

\* the for loop is exhausted: execute_intentions and bdi_cycle return and
\* run_agent reaches asyncio.sleep(30)
ExecuteReturns ==
    /\ pc = "execute"
    /\ ix > Len(Admitted(active_intentions))
    /\ pc' = StageAfter("execution")
    /\ stages' = Append(stages, "execution")
    /\ UNCHANGED <<running, cycle_count, now, beliefs, current_desires,
                   active_intentions, ix, attempts, interrupts>>
    /\ view' = NoView
    /\ UNCHANGED <<wrote, probed, config_file, config>>

(***************************************************************************)
(* The two waits of run_agent and its KeyboardInterrupt clause.            *)
(***************************************************************************)
Sleep ==
    /\ pc = "sleep"
    /\ now' = now + CycleInterval
    /\ pc' = "loop"
    /\ UNCHANGED <<running, cycle_count, beliefs, current_desires,
                   active_intentions, ix, attempts, stages, interrupts>>
    /\ view' = NoView
    /\ UNCHANGED <<wrote, probed, config_file, config>>

Backoff ==
    /\ pc = "backoff"
    /\ now' = now + RetryBackoff
    /\ pc' = "loop"
    /\ UNCHANGED <<running, cycle_count, beliefs, current_desires,
                   active_intentions, ix, attempts, stages, interrupts>>
    /\ view' = NoView
    /\ UNCHANGED <<wrote, probed, config_file, config>>

\* the positions inside the try block of run_agent
TryBody == {"resource", "cloud", "revenue", "stamp", "desires", "plan",
            "execute", "sleep"}

\* a KeyboardInterrupt raised inside the try block reaches
\* except KeyboardInterrupt: self.running = False, and the while test follows
Interrupt ==
    /\ pc \in TryBody
    /\ interrupts < MaxInterrupts
    /\ running' = FALSE
    /\ pc' = "loop"
    /\ interrupts' = interrupts + 1
    /\ UNCHANGED <<cycle_count, now, beliefs, current_desires,
                   active_intentions, ix, attempts, stages>>
    /\ view' = NoView
    /\ UNCHANGED <<wrote, probed, config_file, config>>

\* a KeyboardInterrupt raised during asyncio.sleep(10) is raised inside the
\* except Exception clause: no clause catches it and it leaves run_agent
InterruptInBackoff ==
    /\ pc = "backoff"
    /\ interrupts < MaxInterrupts
    /\ pc' = "crashed"
    /\ interrupts' = interrupts + 1
    /\ UNCHANGED <<running, cycle_count, now, beliefs, current_desires,
                   active_intentions, ix, attempts, stages>>
    /\ view' = NoView
    /\ UNCHANGED <<wrote, probed, config_file, config>>

(***************************************************************************)
(* The dashboard routes.  A request is served by another thread than the   *)
(* loop: it reads the live beliefs dict and the two lists at some point    *)
(* between two steps of the loop.                                          *)
(***************************************************************************)
\* GET /
dashboard ==
    /\ view' = [route |-> "/", beliefs |-> beliefs, wrote |-> wrote,
                desires |-> current_desires,
                intentions |-> active_intentions, running |-> running]
    /\ UNCHANGED <<running, pc, cycle_count, now, beliefs, current_desires,
                   active_intentions, ix, attempts, stages, interrupts,
                   wrote, probed, config_file, config>>

\* GET /api/status
api_status ==
    /\ view' = [route |-> "/api/status",
                status |-> IF running THEN "running" ELSE "stopped",
                beliefs |-> beliefs, wrote |-> wrote,
                desires |-> Len(current_desires),
                intentions |-> Len(active_intentions)]
    /\ UNCHANGED <<running, pc, cycle_count, now, beliefs, current_desires,
                   active_intentions, ix, attempts, stages, interrupts,
                   wrote, probed, config_file, config>>

(***************************************************************************)
(* Spec: the agent as constructed.  active_agents stays empty, so every    *)
(* planning stage raises and the execution stage and the 30 second sleep   *)
(* are never reached; Next holds the actions that can occur.               *)
(***************************************************************************)
Next ==
    \/ RunAgent
    \/ StartCycle
    \/ LoopExit
    \/ SampleResource
    \/ SampleResourceFails
    \/ CheckCloud
    \/ CheckCloudInterrupted
    \/ FetchRevenue
    \/ StampBeliefs
    \/ GenerateDesires
    \/ FormIntentionsRaises
    \/ Interrupt
    \/ Backoff
    \/ InterruptInBackoff
    \/ dashboard
    \/ api_status

Spec == Init /\ [][Next]_vars

(***************************************************************************)
(* SpecCycle: the same loop, the two beliefs no stage writes drawn from    *)
(* bounded sets.                                                           *)
(***************************************************************************)
HealthValues == {80, InitialHealth}

AgentLists == {[i \in 1..n |-> "agent"] : n \in 0..MaxAgents}

InitCycle ==
    /\ running = FALSE
    /\ pc = "init"
    /\ cycle_count = 0
    /\ now = 0
    /\ \E h \in HealthValues, a \in AgentLists :
          beliefs = [InitialBeliefs EXCEPT !.system_health = h,
                                           !.active_agents = a]
    /\ current_desires = <<>>
    /\ active_intentions = <<>>
    /\ ix = 1
    /\ attempts = <<>>
    /\ stages = <<>>
    /\ interrupts = 0
    /\ Constructed

NextCycle ==
    \/ Next
    \/ FormIntentionsReturns
    \/ ExecuteOne
    \/ ExecuteReturns
    \/ Sleep

SpecCycle == InitCycle /\ [][NextCycle]_vars

(***************************************************************************)
(* SpecFn: the stages called directly.  The inputs are a belief snapshot   *)
(* for generate_desires, a list of desires for form_intentions, a list of  *)
(* intentions for execute_intentions; a call that returns is followed by   *)
(* the calls bdi_cycle makes after it.                                     *)
(***************************************************************************)
RevenueValues == {0, 100, PlaceholderRevenue, 39999, 40000, DefaultTarget}
TargetValues == {1000, DefaultTarget}

MetricsInputs ==
    {EmptyDict} \cup
    {[PlaceholderMetrics EXCEPT !.current_month = c, !.target = t] :
        c \in RevenueValues, t \in TargetValues}

PriorityValues == {ScalingPriority, RevenuePriority}

\* desires of the shapes generate_desires builds, and one of an unknown type
DesireInputs ==
    {[type |-> "revenue_optimization", priority |-> p,
      target_increase |-> 37500, strategy |-> "aggressive_scaling"] :
        p \in PriorityValues}
    \cup {[type |-> "system_optimization", priority |-> p,
           target_health |-> TargetHealth,
           actions |-> <<"cleanup", "resource_optimization">>] :
        p \in PriorityValues}
    \cup {[type |-> "agent_scaling", priority |-> p,
           target_agents |-> TargetAgents,
           deployment_strategy |-> "gradual"] : p \in PriorityValues}
    \cup {[type |-> "other", priority |-> p] : p \in PriorityValues}

\* intentions of the shapes form_intentions builds
IntentionInputs ==
    {[action |-> "trigger_github_workflow",
      workflow |-> "revenue-optimization.yml",
      parameters |-> [target_increase |-> 37500,
                      strategy |-> "aggressive_scaling"],
      priority |-> p] : p \in PriorityValues}
    \cup {[action |-> "local_optimization",
           tasks |-> <<"cleanup_logs", "optimize_processes">>,
           priority |-> p] : p \in PriorityValues}
    \cup {[action |-> "deploy_agents", platform |-> "vercel",
           count |-> TargetAgents, priority |-> p] : p \in PriorityValues}

ListsUpTo(S, n) == UNION {[1..k -> S] : k \in 0..n}

InitFn ==
    /\ running = TRUE
    /\ cycle_count = 1
    /\ now = 0
    /\ ix = 1
    /\ attempts = <<>>
    /\ stages = <<>>
    /\ interrupts = 0
    /\ Constructed
    /\ \/ /\ pc = "desires"
          /\ \E h \in HealthValues, a \in AgentLists, m \in MetricsInputs :
                beliefs = [InitialBeliefs EXCEPT !.system_health = h,
                                                 !.active_agents = a,
                                                 !.revenue_metrics = m]
          /\ current_desires = <<>>
          /\ active_intentions = <<>>
       \/ /\ pc = "plan"
          /\ beliefs = InitialBeliefs
          /\ current_desires \in ListsUpTo(DesireInputs, MaxDesires)
          /\ active_intentions = <<>>
       \/ /\ pc = "execute"
          /\ beliefs = InitialBeliefs
          /\ current_desires = <<>>
          /\ active_intentions \in ListsUpTo(IntentionInputs, MaxIntentions)

NextFn ==
    \/ GenerateDesires
    \/ FormIntentionsRaises
    \/ FormIntentionsReturns
    \/ ExecuteOne
    \/ ExecuteReturns

SpecFn == InitFn /\ [][NextFn]_vars

(***************************************************************************)
(* SpecMain: the script run as __main__, from the start of the process.    *)
(* config.yaml is missing, or cannot be read or parsed, or is a YAML       *)
(* mapping with some of the entries the program reads.                     *)
(***************************************************************************)
ConfigKeys ==
    {"bdi_agent", "revenue_targets", "cloud_services",
     "secrets.VERCEL_TOKEN", "secrets.VERCEL_PROJECT_ID"}

ConfigFiles ==
    {MissingFile, [state |-> "unreadable"]}
    \cup {[state |-> "present", keys |-> k] : k \in SUBSET ConfigKeys}

InitMain ==
    /\ running = FALSE
    /\ pc = "main"
    /\ cycle_count = 0
    /\ now = 0
    /\ beliefs = InitialBeliefs
    /\ current_desires = <<>>
    /\ active_intentions = <<>>
    /\ ix = 1
    /\ attempts = <<>>
    /\ stages = <<>>
    /\ interrupts = 0
    /\ wrote = InitialWrote
    /\ probed = EmptyDict
    /\ view = NoView
    /\ config_file \in ConfigFiles
    /\ config = NoConfig

\* _load_config opens and parses the file
LoadConfig ==
    /\ pc = "main"
    /\ config_file.state = "present"
    /\ config' = Loaded(config_file.keys)
    /\ pc' = "configured"
    /\ UNCHANGED <<running, cycle_count, now, beliefs, current_desires,
                   active_intentions, ix, attempts, stages, interrupts,
                   wrote, probed, view, config_file>>

\* open raises FileNotFoundError: a warning is printed and _default_config
\* is returned
LoadDefaultConfig ==
    /\ pc = "main"
    /\ config_file = MissingFile
    /\ config' = DefaultConfig
    /\ pc' = "configured"
    /\ UNCHANGED <<running, cycle_count, now, beliefs, current_desires,
                   active_intentions, ix, attempts, stages, interrupts,
                   wrote, probed, view, config_file>>

\* open or yaml.safe_load raises something else: nothing catches it and
\* the process ends in FMAABDIMaster()
LoadConfigFails ==
    /\ pc = "main"
    /\ config_file.state = "unreadable"
    /\ pc' = "halted"
    /\ UNCHANGED <<running, cycle_count, now, beliefs, current_desires,
                   active_intentions, ix, attempts, stages, interrupts,
                   wrote, probed, view, config_file, config>>

\* the Flask app is created and its routes registered; the constructor
\* returns
SetupDashboard ==
    /\ pc = "configured"
    /\ pc' = "constructed"
    /\ UNCHANGED <<running, cycle_count, now, beliefs, current_desires,
                   active_intentions, ix, attempts, stages, interrupts,
                   wrote, probed, view, config_file, config>>

\* asyncio.create_task is called while no event loop is running: it raises
\* RuntimeError, and the process ends before start_dashboard is called
CreateTask ==
    /\ pc = "constructed"
    /\ pc' = "halted"
    /\ UNCHANGED <<running, cycle_count, now, beliefs, current_desires,
                   active_intentions, ix, attempts, stages, interrupts,
                   wrote, probed, view, config_file, config>>

NextMain ==
    \/ LoadConfig
    \/ LoadDefaultConfig
    \/ LoadConfigFails
    \/ SetupDashboard
    \/ CreateTask

SpecMain == InitMain /\ [][NextMain]_vars

(***************************************************************************)
(* Properties.                                                             *)
(***************************************************************************)
AllStages == <<"beliefs", "desires", "intentions", "execution">>

RefreshPositions == {"resource", "cloud", "revenue", "stamp"}

\* C1: within a cycle the stages run in the order belief refresh, desire
\* generation, intention planning, intention execution: a stage is only
\* entered when exactly the stages before it have returned in this cycle,
\* and execution only after planning has returned.
C1_StagesInOrder ==
    /\ pc \in RefreshPositions => stages = <<>>
    /\ pc = "desires" => stages = SubSeq(AllStages, 1, 1)
    /\ pc = "plan" => stages = SubSeq(AllStages, 1, 2)
    /\ pc = "backoff" => stages = SubSeq(AllStages, 1, 2)
    /\ pc = "execute" => stages = SubSeq(AllStages, 1, 3)
    /\ pc = "sleep" => stages = AllStages

C1_Witness ==
    /\ pc = "execute"
    /\ cycle_count = 2
    /\ stages = SubSeq(AllStages, 1, 3)

\* C2: with the placeholder revenue metrics no stage of a cycle raises: the
\* loop never arrives in the error clause of run_agent.
C2_PipelineCompletes ==
    beliefs.revenue_metrics = PlaceholderMetrics => pc # "backoff"

Failed(attempt) == attempt.outcome # "returned"

\* C3: an attempt that raises does not stop the batch: once
\* execute_intentions is over, every admitted position after a failed one
\* has been attempted too, and a failed attempt never takes the call into
\* the error clause of run_agent.
C3_FailureIsolated ==
    /\ pc = "sleep" =>
          \A k \in 1..Len(attempts) :
             Failed(attempts[k]) =>
                \A j \in (k + 1)..Min(3, Len(active_intentions)) :
                   j <= Len(attempts) /\ attempts[j].index = j
    /\ pc = "backoff" => \A k \in 1..Len(attempts) : ~Failed(attempts[k])

C3_Witness ==
    /\ pc = "sleep"
    /\ Len(attempts) = 3
    /\ Failed(attempts[1])
    /\ ~Failed(attempts[2])
    /\ Failed(attempts[3])

\* C4: one call of execute_intentions attempts at most 3 intentions, and
\* they are the first min(3, n) entries of active_intentions, in order.
C4_TopThreeOnly ==
    /\ Len(attempts) <= 3
    /\ pc \in {"execute", "sleep"} =>
          \A k \in 1..Len(attempts) :
             /\ k <= Len(active_intentions)
             /\ attempts[k].intention = active_intentions[k]
    /\ pc = "sleep" => Len(attempts) = Min(3, Len(active_intentions))

C4_Witness ==
    /\ pc = "sleep"
    /\ Len(active_intentions) = 4
    /\ Len(attempts) = 3

\* C5: an error raised by a stage does not end the loop: running stays
\* true, the loop waits 10 seconds and the next thing it starts is a whole
\* cycle, from the belief refresh; running is only ever cleared by a
\* KeyboardInterrupt.
C5_ErrorBackoffRetry ==
    [][ /\ (pc # "backoff" /\ pc' = "backoff") => (running /\ running')
        /\ (pc = "backoff" /\ pc' # "backoff") =>
              /\ running'
              /\ \/ pc' = "loop" /\ now' = now + 10
                 \/ interrupts' = interrupts + 1
        /\ (pc = "loop" /\ running /\ pc' # "loop") =>
              pc' = "resource" /\ stages' = <<>>
        /\ (running /\ ~running') => interrupts' = interrupts + 1 ]_vars

C5_Witness ==
    /\ pc = "resource"
    /\ running
    /\ cycle_count = 2
    /\ now = 10

MidCycle == RefreshPositions \cup {"desires", "plan", "execute"}

C7_ActionOf(type) ==
    IF type = "revenue_optimization" THEN "trigger_github_workflow"
    ELSE IF type = "system_optimization" THEN "local_optimization"
    ELSE IF type = "agent_scaling" THEN "deploy_agents"
    ELSE "dropped"

C7_Known(desire) == C7_ActionOf(desire.type) # "dropped"

C7_Actions(list) == [i \in 1..Len(list) |-> list[i].action]

C7_Compiled(list) == [i \in 1..Len(list) |-> C7_ActionOf(list[i].type)]

\* C7: when form_intentions has returned, active_intentions is in
\* non-increasing priority order, and for every priority the intentions of
\* that priority are the compilations of the desires of that priority, in
\* the order of the desires.
C7_SortedStable ==
    (stages # <<>> /\ stages[Len(stages)] = "intentions") =>
        /\ \A j \in 1..(Len(active_intentions) - 1) :
              active_intentions[j].priority >= active_intentions[j + 1].priority
        /\ \A v \in PriorityValues \cup {SystemPriority} :
              LET At(x) == x.priority = v
                  Src(d) == d.priority = v /\ C7_Known(d)
              IN  C7_Actions(SelectSeq(active_intentions, At))
                    = C7_Compiled(SelectSeq(current_desires, Src))
        /\ Len(active_intentions) = Len(SelectSeq(current_desires, C7_Known))

C7_Witness ==
    /\ stages = <<"intentions">>
    /\ Len(current_desires) = 4
    /\ Len(active_intentions) = 3
    /\ current_desires[1].priority < current_desires[4].priority
    /\ active_intentions[1].priority = active_intentions[2].priority
    /\ active_intentions[1].action # active_intentions[2].action
    /\ active_intentions[2].priority > active_intentions[3].priority

C8_Revenue(desire) == desire.type = "revenue_optimization"

\* C8: when generate_desires has returned for a snapshot with revenue
\* metrics, there is no revenue_optimization desire if current_month is at
\* least 80% of target, and otherwise exactly one, with priority 10,
\* strategy aggressive_scaling and target_increase = target - current_month.
C8_RevenueRule ==
    (pc = "plan" /\ stages # <<>> /\ stages[Len(stages)] = "desires"
        /\ beliefs.revenue_metrics # EmptyDict) =>
        LET current == beliefs.revenue_metrics.current_month
            target == beliefs.revenue_metrics.target
            emitted == SelectSeq(current_desires, C8_Revenue)
        IN  IF 10 * current >= 8 * target
            THEN emitted = <<>>
            ELSE /\ Len(emitted) = 1
                 /\ emitted[1].priority = 10
                 /\ emitted[1].strategy = "aggressive_scaling"
                 /\ emitted[1].target_increase = target - current

C8_Witness ==
    /\ pc = "plan"
    /\ stages = <<"desires">>
    /\ beliefs.revenue_metrics # EmptyDict
    /\ beliefs.revenue_metrics.current_month = 12500
    /\ beliefs.revenue_metrics.target = 50000
    /\ \E i \in 1..Len(current_desires) :
          /\ C8_Revenue(current_desires[i])
          /\ current_desires[i].target_increase = 37500

C9_Scaling(desire) == desire.type = "agent_scaling"

\* C9: when generate_desires has returned, there is an agent_scaling desire
\* with priority 6 and target_agents 10 if fewer than 5 agents are active,
\* and no agent_scaling desire if 5 or more are.
C9_ScalingRule ==
    (pc = "plan" /\ stages # <<>> /\ stages[Len(stages)] = "desires") =>
        LET emitted == SelectSeq(current_desires, C9_Scaling)
        IN  IF Len(beliefs.active_agents) < 5
            THEN /\ Len(emitted) = 1
                 /\ emitted[1].priority = 6
                 /\ emitted[1].target_agents = 10
            ELSE emitted = <<>>

C9_Witness ==
    /\ pc = "plan"
    /\ stages = <<"desires">>
    /\ Len(beliefs.active_agents) = 4
    /\ \E i \in 1..Len(current_desires) : C9_Scaling(current_desires[i])

C10_Deploy(intention) == intention.action = "deploy_agents"

\* C10: once the planning stage of a cycle is over, every agent_scaling
\* desire of the cycle has one deploy_agents intention, with platform vercel
\* and count equal to the desire's target_agents.
C10_ScalingCompiled ==
    (pc \in {"execute", "sleep", "backoff"}
        /\ SelectSeq(current_desires, C9_Scaling) # <<>>) =>
        LET wanted == SelectSeq(current_desires, C9_Scaling)
            planned == SelectSeq(active_intentions, C10_Deploy)
        IN  /\ Len(planned) = Len(wanted)
            /\ \A i \in 1..Len(planned) :
                  /\ planned[i].platform = "vercel"
                  /\ planned[i].count = wanted[i].target_agents

C11_Trigger(intention) == intention.action = "trigger_github_workflow"

\* a parameter value is a string when it is not the integer the desire holds
C11_IsString(value) == value \notin Int

\* C11: once the planning stage of a cycle is over, every
\* revenue_optimization desire of the cycle has one trigger_github_workflow
\* intention, naming revenue-optimization.yml, with the desire's priority
\* (10) and with target_increase and strategy as strings, "37500" for the
\* snapshot current_month = 12500, target = 50000.
C11_WorkflowCompiled ==
    (pc \in {"execute", "sleep", "backoff"}
        /\ SelectSeq(current_desires, C8_Revenue) # <<>>) =>
        LET wanted == SelectSeq(current_desires, C8_Revenue)
            planned == SelectSeq(active_intentions, C11_Trigger)
        IN  /\ Len(planned) = Len(wanted)
            /\ \A i \in 1..Len(planned) :
                  /\ planned[i].workflow = "revenue-optimization.yml"
                  /\ \E j \in 1..Len(wanted) :
                        planned[i].priority = wanted[j].priority
                  /\ C11_IsString(planned[i].parameters.target_increase)
                  /\ planned[i].parameters.target_increase
                        = ToString(wanted[i].target_increase)
                  /\ planned[i].parameters.strategy = wanted[i].strategy
            /\ beliefs.revenue_metrics = PlaceholderMetrics =>
                  /\ wanted[1].target_increase = 37500
                  /\ planned[1].priority = 10
                  /\ planned[1].parameters.target_increase = "37500"

\* C12: a dashboard request never reads a partially updated result: the
\* four beliefs a refresh writes were all written by the same refresh when
\* the request reads them.
C12_ViewIsOneSnapshot ==
    view # NoView =>
        /\ view.wrote.resource_usage = view.wrote.last_updated
        /\ view.wrote.cloud_status = view.wrote.last_updated
        /\ view.wrote.revenue_metrics = view.wrote.last_updated


\* C13: update_beliefs never lets an error reach the loop, and a probe
\* that gets no response makes only its own service false: every service is
\* recorded, the ones that answered 200 as true, and the resource sample and
\* the revenue metrics of the same refresh are recorded as well.
C13_RefreshAbsorbsFailures ==
    /\ (pc = "revenue" /\ probed # EmptyDict) =>
          /\ DOMAIN beliefs.cloud_status = Services
          /\ \A s \in Services :
                /\ probed[s] = NoResponse => ~beliefs.cloud_status[s]
                /\ probed[s] = 200 => beliefs.cloud_status[s]
          /\ wrote.resource_usage = cycle_count
          /\ wrote.cloud_status = cycle_count
    /\ (pc = "desires" /\ wrote.cloud_status = cycle_count) =>
          /\ wrote.resource_usage = cycle_count
          /\ wrote.revenue_metrics = cycle_count
          /\ beliefs.revenue_metrics # EmptyDict
    /\ pc = "backoff" => (stages # <<>> /\ stages[1] = "beliefs")

C13_Witness ==
    /\ pc = "revenue"
    /\ cycle_count = 2
    /\ probed # EmptyDict
    /\ probed["github_actions"] = NoResponse
    /\ probed["vercel_api"] = 200
    /\ probed["supabase_db"] = NoResponse
    /\ probed["huggingface"] = 401
    /\ beliefs.cloud_status =
          [github_actions |-> FALSE, vercel_api |-> TRUE,
           supabase_db |-> FALSE, huggingface |-> TRUE]
    /\ wrote.resource_usage = 2

\* C14: with the configuration missing the process fails fast: it ends
\* while loading the configuration, with no configuration substituted, no
\* cycle run and no sink called; and a missing configuration is the only
\* thing that ends the process.
C14_FailsFast ==
    /\ config_file = MissingFile =>
          /\ pc \in {"main", "halted"}
          /\ config = NoConfig
          /\ ~running /\ cycle_count = 0 /\ attempts = <<>>
    /\ pc = "halted" => config_file = MissingFile

\* the sink that matches an action
C15_SinkFor(action) ==
    IF action = "trigger_github_workflow" THEN "_trigger_github_workflow"
    ELSE IF action = "local_optimization" THEN "_perform_local_optimization"
    ELSE "_deploy_agents"

C15_AttemptsOf(i) == {k \in 1..Len(attempts) : attempts[k].index = i}

C16_Types(list) == [i \in 1..Len(list) |-> list[i].type]

\* C16: when generate_desires has returned for a snapshot with revenue
\* metrics, the desires are those of the rules whose condition holds, each
\* rule on its own, in the order revenue, system, scaling; the system desire
\* has priority 8.
C16_RulesIndependent ==
    (pc = "plan" /\ stages # <<>> /\ stages[Len(stages)] = "desires"
        /\ beliefs.revenue_metrics # EmptyDict) =>
        LET current == beliefs.revenue_metrics.current_month
            target == beliefs.revenue_metrics.target
            expected ==
                (IF 10 * current < 8 * target
                 THEN <<"revenue_optimization">> ELSE <<>>)
                \o (IF beliefs.system_health < 90
                    THEN <<"system_optimization">> ELSE <<>>)
                \o (IF Len(beliefs.active_agents) < 5
                    THEN <<"agent_scaling">> ELSE <<>>)
        IN  /\ C16_Types(current_desires) = expected
            /\ \A i \in 1..Len(current_desires) :
                  current_desires[i].type = "system_optimization" =>
                     current_desires[i].priority = 8

C16_Witness ==
    /\ pc = "plan"
    /\ stages = <<"desires">>
    /\ beliefs.revenue_metrics # EmptyDict
    /\ beliefs.system_health = 80
    /\ C16_Types(current_desires)
          = <<"revenue_optimization", "system_optimization", "agent_scaling">>

\* C17: a probe reports healthy exactly when its response is in the healthy
\* set of its service: 200 for GitHub, 200 or 401 for the other three; no
\* response, or any other status, is unhealthy.
C17_HealthySets ==
    (pc = "revenue" /\ probed # EmptyDict) =>
        /\ beliefs.cloud_status["github_actions"]
              = (probed["github_actions"] = 200)
        /\ \A s \in Services \ {"github_actions"} :
              beliefs.cloud_status[s] = (probed[s] \in {200, 401})

BeliefFields == DOMAIN InitialWrote

\* C18: a refresh that returns without completing has changed no belief,
\* last_updated included, and last_updated only changes in the step that
\* completes a refresh whose three other writes have been made.
C18_FailedRefreshKeepsSnapshot ==
    [][ /\ (pc \in RefreshPositions /\ pc' = "desires"
              /\ wrote'.last_updated # cycle_count) =>
              /\ beliefs' = beliefs
              /\ \A f \in BeliefFields : wrote'[f] # cycle_count
        /\ (beliefs'.last_updated # beliefs.last_updated
              \/ wrote'.last_updated # wrote.last_updated) =>
              /\ pc = "stamp" /\ pc' = "desires"
              /\ \A f \in BeliefFields : wrote'[f] = cycle_count ]_vars

C18_Witness ==
    /\ pc = "desires"
    /\ cycle_count = 2
    /\ \A f \in BeliefFields : wrote[f] = 1
    /\ beliefs.last_updated = 0
    /\ beliefs.revenue_metrics = PlaceholderMetrics

\* C19: while the loop waits between two cycles, active_intentions is the
\* plan of current_desires: one intention for each desire of a known type,
\* and for every priority the same actions in the same order.
C19_PlanMatchesDesires ==
    pc \in {"sleep", "backoff"} =>
        /\ Len(active_intentions) = Len(SelectSeq(current_desires, C7_Known))
        /\ \A v \in {RevenuePriority, SystemPriority, ScalingPriority} :
              LET At(x) == x.priority = v
                  Src(d) == d.priority = v /\ C7_Known(d)
              IN  C7_Actions(SelectSeq(active_intentions, At))
                    = C7_Compiled(SelectSeq(current_desires, Src))

C20_System(desire) == desire.type = "system_optimization"

\* C20: system_health is always 100 and active_agents always empty, and
\* every desire list a cycle generates has no system_optimization desire and
\* has the agent_scaling desire.
C20_HealthAndAgentsFrozen ==
    /\ beliefs.system_health = 100
    /\ beliefs.active_agents = <<>>
    /\ (pc \in {"plan", "backoff"}) =>
          /\ SelectSeq(current_desires, C20_System) = <<>>
          /\ Len(SelectSeq(current_desires, C9_Scaling)) = 1

C20_Witness ==
    /\ pc = "plan"
    /\ cycle_count = 2
    /\ wrote.last_updated = 2
    /\ beliefs.resource_usage = 100
    /\ Len(SelectSeq(current_desires, C9_Scaling)) = 1

====
